---- MODULE Spec2Model ----
(***************************************************************************)
(* Model of the IA-MEDICA-CHATBOT webhook relay (src/app/main.py, db.py,   *)
(* models.py, schemas.py, config.py).                                      *)
(*                                                                         *)
(* One process per webhook request r: the FastAPI handler                  *)
(* handle_zapi_webhook, the HTTP response, the background task             *)
(* process_incoming_message (one action per await) and the exit of the     *)
(* get_db dependency.  The store is a PostgreSQL database (models.py uses  *)
(* the postgresql dialect) accessed through one SQLAlchemy session per     *)
(* request: READ COMMITTED visibility, a unique index on                   *)
(* users.phone_number, and now() as the server default of                  *)
(* chat_history.timestamp, which is the start time of the transaction.     *)
(*                                                                         *)
(* The session a request gets from Depends(get_db) is handed to its        *)
(* background task.  Whether get_db's exit code (commit, close) runs after *)
(* the background task or before the response is sent is decided by the    *)
(* installed FastAPI, which the repository does not pin: deferredExit      *)
(* takes either value.  A session used after its exit begins a new         *)
(* transaction that nobody commits.  The context window                    *)
(* (settings.CONTEXT_MESSAGE_COUNT) is read from the environment when the  *)
(* process starts and has the default 6.                                   *)
(*                                                                         *)
(* Strings the code inspects character by character (message texts,        *)
(* phone numbers) are sequences of one-character strings.                  *)
(***************************************************************************)
EXTENDS Integers, Sequences, FiniteSets, TLC

\* ------------------------------------------------------------------ bounds

\* Number of webhook requests delivered in one behaviour.
NumRequests == 2

\* Largest limit get_chat_history is examined with.
MaxLimit == 3

Requests == 1..NumRequests

\* ------------------------------------------------------ strings and values

Min(a, b) == IF a <= b THEN a ELSE b

Range(s) == {s[i] : i \in DOMAIN s}

RECURSIVE Reverse(_)
Reverse(s) == IF s = <<>> THEN <<>> ELSE Reverse(Tail(s)) \o <<Head(s)>>

Whitespace == {" ", "\t", "\n"}

Digits == {"0", "1", "2", "3", "4", "5", "6", "7", "8", "9"}

RECURSIVE LStrip(_)
LStrip(s) ==
    IF s = <<>> THEN s
    ELSE IF Head(s) \in Whitespace THEN LStrip(Tail(s)) ELSE s

\* str.strip(): leading and trailing whitespace removed.
Strip(s) == Reverse(LStrip(Reverse(LStrip(s))))

\* Python's None for an Optional[str] name, and truthiness of a name.
None == "<None>"

NameTruthy(n) == n # None /\ n # ""

\* An Optional[str] text: none, or the characters s.
NoText == [none |-> TRUE, s |-> <<>>]

SomeText(s) == [none |-> FALSE, s |-> s]

TextTruthy(t) == ~t.none /\ t.s # <<>>

\* --------------------------------------------------------- webhook bodies

\* A JSON value under a key: its kind and, for a string, its characters.
JAbsent == [k |-> "absent", v |-> <<>>]

JNull == [k |-> "null", v |-> <<>>]

JNum == [k |-> "num", v |-> <<>>]

JStr(s) == [k |-> "str", v |-> s]

\* A JSON value holding a display name (names are never inspected by character).
NAbsent == [k |-> "absent", v |-> ""]

NStr(n) == [k |-> "str", v |-> n]

\* The value under "message": absent, null, or an object with its keys.
MAbsent == [k |-> "absent", mensagem |-> JAbsent, text |-> JAbsent]

MNull == [k |-> "null", mensagem |-> JAbsent, text |-> JAbsent]

MObj(mensagem, text) == [k |-> "obj", mensagem |-> mensagem, text |-> text]

PhoneA == <<"1", "1", "9", "8", "7", "6", "5", "4", "3", "2", "1">>

PhoneAPunct ==
    <<"(", "1", "1", ")", " ", "9", "8", "7", "6", "5", "-", "4", "3", "2", "1">>

PhoneA55 == <<"5", "5">> \o PhoneA

PhoneB == <<"5", "5", "2", "1", "9", "0", "0", "0", "0", "0", "0", "0", "1">>

Body(json, object, phone, nome, message, group) ==
    [json |-> json, object |-> object, phone |-> phone, nome_remetente |-> nome,
     message |-> message, isGroupMessage |-> group]

Msg(s) == MObj(JStr(s), JAbsent)

\* Bodies that are rejected or ignored by the endpoint.
IgnoredBodies ==
    { Body(FALSE, FALSE, JAbsent, NAbsent, MAbsent, "absent"),
      Body(TRUE, FALSE, JAbsent, NAbsent, MAbsent, "absent"),
      Body(TRUE, TRUE, JAbsent, NStr("Ana"), Msg(<<"a">>), "absent"),
      Body(TRUE, TRUE, JNum, NAbsent, Msg(<<"a">>), "false"),
      Body(TRUE, TRUE, JStr(PhoneA), NStr("Ana"), Msg(<<"a">>), "true"),
      Body(TRUE, TRUE, JStr(PhoneA), NStr("Ana"), MAbsent, "true"),
      Body(TRUE, TRUE, JStr(PhoneA), NAbsent, MAbsent, "absent"),
      Body(TRUE, TRUE, JStr(PhoneA), NAbsent, MNull, "false"),
      Body(TRUE, TRUE, JStr(PhoneA), NAbsent, MObj(JAbsent, JStr(<<"a">>)), "false"),
      Body(TRUE, TRUE, JStr(PhoneA), NAbsent, MObj(JNull, JAbsent), "false"),
      Body(TRUE, TRUE, JStr(PhoneA), NAbsent, MObj(JNum, JAbsent), "false"),
      Body(TRUE, TRUE, JStr(PhoneB), NStr("Bia"), Msg(<<>>), "absent"),
      Body(TRUE, TRUE, JStr(PhoneB), NStr("Bia"), Msg(<<" ">>), "null"),
      Body(TRUE, TRUE, JStr(PhoneB), NStr("Bia"), Msg(<<" ", "\n">>), "false") }

\* Bodies that carry a text message of one sender.
TextBodies ==
    { Body(TRUE, TRUE, JStr(PhoneA), NStr("Ana"), Msg(<<"a">>), "absent"),
      Body(TRUE, TRUE, JStr(PhoneA), NStr("Bia"), Msg(<<" ", "b", " ">>), "false"),
      Body(TRUE, TRUE, JStr(PhoneA), NAbsent, Msg(<<"b">>), "null"),
      Body(TRUE, TRUE, JStr(PhoneA), NStr(""), Msg(<<"a">>), "false"),
      Body(TRUE, TRUE, JStr(PhoneAPunct), NStr("Ana"), Msg(<<"a">>), "false"),
      Body(TRUE, TRUE, JStr(PhoneA55), NStr("Ana"), Msg(<<"b">>), "false"),
      Body(TRUE, TRUE, JStr(PhoneB), NStr("Bia"), Msg(<<"a">>), "false") }

Payloads == IgnoredBodies \cup TextBodies

\* The bodies of the specification with fairness: two senders, one of them
\* under two names, and a group message.
LiveBodies ==
    { Body(TRUE, TRUE, JStr(PhoneA), NStr("Ana"), Msg(<<"a">>), "absent"),
      Body(TRUE, TRUE, JStr(PhoneA), NStr("Bia"), Msg(<<" ", "b", " ">>), "false"),
      Body(TRUE, TRUE, JStr(PhoneB), NStr("Bia"), Msg(<<"a">>), "false"),
      Body(TRUE, TRUE, JStr(PhoneA), NStr("Ana"), Msg(<<"a">>), "true") }

\* No body received yet.
NoBody == Body(FALSE, FALSE, JAbsent, NAbsent, MAbsent, "absent")

\* -------------------------------------------------------------- settings

\* settings.CONTEXT_MESSAGE_COUNT, the default
CONTEXT_MESSAGE_COUNT == 6

\* settings.system_prompt
SystemPrompt == <<"system prompt">>

\* The fixed texts relayed when no reply was produced and on an internal error.
Apology ==
    <<"Desculpe, nao consegui processar sua solicitacao no momento. Tente novamente mais tarde.">>

InternalError == <<"Ocorreu um erro interno. Por favor, tente novamente mais tarde.">>

\* What the completion API may answer: a first choice with some content, an
\* empty list of choices, an HTTP error status, or any other failure
\* (network, timeout, unparsable body).
ReplyContents == { <<"r", " ">>, <<" ">>, <<>> }

CompletionOutcomes ==
    { [kind |-> "choices", content |-> c] : c \in ReplyContents }
    \cup { [kind |-> k, content |-> <<>>] : k \in {"no_choices", "http_error", "error"} }

\* ------------------------------------------------------------------ state

VARIABLES
    deferredExit,   \* TRUE: the framework runs a dependency's exit code after the
                    \* background tasks; FALSE: before the response is sent
    context_message_count,
                    \* settings.CONTEXT_MESSAGE_COUNT as loaded from the environment
    users,          \* committed rows of table users
    chat_history,   \* committed rows of table chat_history
    clock,          \* the database server's clock
    body,           \* body[r]: the body of request r
    response,       \* response[r]: HTTP status and JSON status, and whether sent
    task,           \* task[r]: the background task added by the handler
    pc,             \* pc[r]: where request r stands
    session,        \* session[r]: the request's AsyncSession and its transaction
    run,            \* run[r]: the locals of process_incoming_message
    relays          \* relays[r]: the relay calls run r made, in order

\* What is fixed when the process starts.
deployment == <<deferredExit, context_message_count>>

vars ==
    <<deferredExit, context_message_count, users, chat_history, clock, body, response,
      task, pc, session, run, relays>>

NoUser == [id |-> 0, phone_number |-> <<>>, name |-> None]

NoRename == [id |-> 0, name |-> None]

\* A session with no transaction begun.
FreshSession ==
    [state |-> "idle", ts |-> 0, new_user |-> NoUser, renamed |-> NoRename,
     messages |-> <<>>]

NoResponse == [http |-> 0, status |-> "", sent |-> FALSE]

NoTask == [scheduled |-> FALSE, phone |-> <<>>, name |-> None, user_message |-> <<>>]

NoRun ==
    [user_id |-> 0, history |-> <<>>, sent_messages |-> <<>>, completion |-> "",
     ai_response |-> NoText, exc |-> "", escaped |-> FALSE, finished |-> FALSE]

Init ==
    /\ deferredExit \in BOOLEAN
    /\ context_message_count = CONTEXT_MESSAGE_COUNT
    /\ users = {}
    /\ chat_history = {}
    /\ clock = 0
    /\ body = [r \in Requests |-> NoBody]
    /\ response = [r \in Requests |-> NoResponse]
    /\ task = [r \in Requests |-> NoTask]
    /\ pc = [r \in Requests |-> "idle"]
    /\ session = [r \in Requests |-> FreshSession]
    /\ run = [r \in Requests |-> NoRun]
    /\ relays = [r \in Requests |-> <<>>]

\* ---------------------------------------------------------------- webhook

\* schemas.ZapiWebhookPayload.model_validate: fields are read under their
\* aliases ("nome_remetente", "mensagem"); a str field takes a JSON string only.
model_validate(b) ==
    LET okMessage ==
            \/ b.message.k \in {"absent", "null"}
            \/ /\ b.message.k = "obj"
               /\ b.message.mensagem.k \in {"absent", "null", "str"}
    IN  [valid |-> /\ b.object
                   /\ b.phone.k = "str"
                   /\ b.nome_remetente.k \in {"absent", "null", "str"}
                   /\ okMessage
                   /\ b.isGroupMessage \in {"absent", "null", "true", "false"},
         phone |-> b.phone.v,
         senderName |-> IF b.nome_remetente.k = "str" THEN b.nome_remetente.v ELSE None,
         hasMessage |-> b.message.k = "obj",
         text |-> IF b.message.k = "obj" /\ b.message.mensagem.k = "str"
                  THEN SomeText(b.message.mensagem.v) ELSE NoText,
         isGroupMessage |-> b.isGroupMessage = "true"]

Answer(http, status) == [http |-> http, status |-> status, task |-> NoTask]

\* Faulty variant of handle_zapi_webhook: the group flag is not looked at.
handle_zapi_webhook_ignores_group(b) ==
    LET webhook_data == model_validate(b)
        user_message == Strip(webhook_data.text.s)
    IN  IF ~b.json THEN Answer(400, "")
        ELSE IF ~webhook_data.valid THEN Answer(200, "processing_error")
        ELSE IF ~webhook_data.hasMessage \/ ~TextTruthy(webhook_data.text)
             THEN Answer(200, "ignored_no_text")
        ELSE IF user_message = <<>> THEN Answer(200, "ignored_empty_text")
        ELSE [http |-> 200, status |-> "received",
              task |-> [scheduled |-> TRUE, phone |-> webhook_data.phone,
                        name |-> webhook_data.senderName,
                        user_message |-> user_message]]

\* Faulty variant of handle_zapi_webhook: a validation error is answered like a body
\* that is not JSON.
handle_zapi_webhook_rejects_invalid(b) ==
    LET webhook_data == model_validate(b)
        user_message == Strip(webhook_data.text.s)
    IN  IF ~b.json \/ ~webhook_data.valid THEN Answer(400, "")
        ELSE IF webhook_data.isGroupMessage THEN Answer(200, "ignored_group_message")
        ELSE IF ~webhook_data.hasMessage \/ ~TextTruthy(webhook_data.text)
             THEN Answer(200, "ignored_no_text")
        ELSE IF user_message = <<>> THEN Answer(200, "ignored_empty_text")
        ELSE [http |-> 200, status |-> "received",
              task |-> [scheduled |-> TRUE, phone |-> webhook_data.phone,
                        name |-> webhook_data.senderName,
                        user_message |-> user_message]]

\* handle_zapi_webhook: the response and the background task, if any, for body b.
handle_zapi_webhook(b) ==
    LET webhook_data == model_validate(b)
        user_message == Strip(webhook_data.text.s)
    IN  IF ~b.json THEN Answer(400, "")
        ELSE IF ~webhook_data.valid THEN Answer(200, "processing_error")
        ELSE IF webhook_data.isGroupMessage THEN Answer(200, "ignored_group_message")
        ELSE IF ~webhook_data.hasMessage \/ ~TextTruthy(webhook_data.text)
             THEN Answer(200, "ignored_no_text")
        ELSE IF user_message = <<>> THEN Answer(200, "ignored_empty_text")
        ELSE [http |-> 200, status |-> "received",
              task |-> [scheduled |-> TRUE, phone |-> webhook_data.phone,
                        name |-> webhook_data.senderName,
                        user_message |-> user_message]]

\* Requests are delivered in the order of their numbers.
Turn(r) == IF r = 1 THEN TRUE ELSE pc[r - 1] # "idle"

\* The endpoint runs for request r with one of `bodies`: the handler returns
\* (or raises the 400).  The dependency's exit code runs next when the
\* framework does not defer it.
Deliver(r, bodies) ==
    /\ pc[r] = "idle"
    /\ Turn(r)
    /\ \E b \in bodies :
          LET out == handle_zapi_webhook(b)
          IN  /\ body' = [body EXCEPT ![r] = b]
              /\ response' = [response EXCEPT ![r] =
                                 [http |-> out.http, status |-> out.status, sent |-> FALSE]]
              /\ task' = [task EXCEPT ![r] = out.task]
    /\ pc' = [pc EXCEPT ![r] = IF deferredExit THEN "respond" ELSE "exit"]
    /\ UNCHANGED <<deployment, users, chat_history, clock, session, run, relays>>

\* The gateway posts any body.
HandleWebhook(r) == Deliver(r, Payloads)

\* The gateway posts a text message of one of two senders, or a group message.
HandleTextWebhook(r) == Deliver(r, LiveBodies)

\* Faulty variant of SendResponse: the handler awaits the task, the response
\* goes out when the task is over.
SendResponse_awaits_task(r) ==
    /\ pc[r] = "respond"
    /\ response' = [response EXCEPT ![r].sent = ~task[r].scheduled]
    /\ pc' = [pc EXCEPT ![r] =
                 IF task[r].scheduled THEN "get_user"
                 ELSE IF deferredExit THEN "exit" ELSE "closed"]
    /\ UNCHANGED <<deployment, users, chat_history, clock, body, task, session, run,
                   relays>>

\* The response goes out; the background task, if any, starts after it.
SendResponse(r) ==
    /\ pc[r] = "respond"
    /\ response' = [response EXCEPT ![r].sent = TRUE]
    /\ pc' = [pc EXCEPT ![r] =
                 IF task[r].scheduled THEN "get_user"
                 ELSE IF deferredExit THEN "exit" ELSE "closed"]
    /\ UNCHANGED <<deployment, users, chat_history, clock, body, task, session, run,
                   relays>>

\* ------------------------------------------------------------------ store

\* The transaction of session[r] is open.
Active(r) == session[r].state = "active"

\* What run r's statements see: the committed rows and its own writes.
ViewUsers(r) ==
    LET s == session[r]
    IN  IF ~Active(r) THEN users
        ELSE { IF u.id = s.renamed.id THEN [u EXCEPT !.name = s.renamed.name] ELSE u :
                 u \in users }
             \cup (IF s.new_user.id # 0 THEN {s.new_user} ELSE {})

ViewMessages(r) ==
    IF Active(r) THEN chat_history \cup Range(session[r].messages) ELSE chat_history

\* users.phone_number is declared unique.
PhoneNotUnique == FALSE

PhoneUnique == TRUE

\* ORDER BY timestamp DESC: every order of the rows in which timestamps never
\* increase (rows with equal timestamps come in any order).
RECURSIVE DescOrders(_)
DescOrders(rows) ==
    IF rows = {} THEN {<<>>}
    ELSE LET newest == {m \in rows : \A o \in rows : o.timestamp <= m.timestamp}
         IN  UNION { { <<m>> \o rest : rest \in DescOrders(rows \ {m}) } : m \in newest }

\* Faulty variant of get_chat_history: the rows are not reversed.
get_chat_history_unreversed(rows, user_id, limit) ==
    { SubSeq(o, 1, Min(limit, Len(o))) :
        o \in DescOrders({m \in rows : m.user_id = user_id}) }

\* get_chat_history: the results the query may give on the visible rows: the
\* user's rows, newest first, the first `limit` of them, reversed.
get_chat_history(rows, user_id, limit) ==
    { Reverse(SubSeq(o, 1, Min(limit, Len(o)))) :
        o \in DescOrders({m \in rows : m.user_id = user_id}) }

\* A statement of run r fails: the transaction is aborted and the exception
\* reaches the except clause of process_incoming_message.
Raise(r, kind) ==
    /\ session' = [session EXCEPT ![r].state = "failed"]
    /\ run' = [run EXCEPT ![r].exc = kind]
    /\ pc' = [pc EXCEPT ![r] = "except"]

\* Where a request goes when its background task is over.
AfterTask == IF deferredExit THEN "exit" ELSE "leaked"

\* --------------------------------------------------------------- pipeline

\* get_or_create_user, the lookup: the session begins its transaction (now()
\* is fixed to its start) and the user is looked up by phone.  A found user
\* whose name needs no update is returned at once.
SelectUser(r) ==
    /\ pc[r] = "get_user"
    /\ \E t \in {clock, clock + 1} \ {0} :
          /\ clock' = t
          /\ \/ /\ session' = [session EXCEPT ![r] =
                                  [FreshSession EXCEPT !.state = "failed", !.ts = t]]
                /\ run' = [run EXCEPT ![r].exc = "StoreError"]
                /\ pc' = [pc EXCEPT ![r] = "except"]
             \/ /\ session' = [session EXCEPT ![r] =
                                  [FreshSession EXCEPT !.state = "active", !.ts = t]]
                /\ LET found == {u \in users : u.phone_number = task[r].phone}
                       name == task[r].name
                   IN  IF found = {}
                       THEN /\ pc' = [pc EXCEPT ![r] = "insert_user"]
                            /\ run' = run
                       ELSE \E user \in found :
                              /\ run' = [run EXCEPT ![r].user_id = user.id]
                              /\ pc' = [pc EXCEPT ![r] =
                                  IF NameTruthy(name)
                                     /\ (~NameTruthy(user.name) \/ user.name # name)
                                  THEN "update_name" ELSE "save_user_message"]
    /\ UNCHANGED <<deployment, users, chat_history, body, response, task, relays>>

\* Faulty variant of UpdateName: the new name is not written.
UpdateName_keeps_name(r) ==
    /\ pc[r] = "update_name"
    /\ \A o \in Requests \ {r} : ~(Active(o) /\ session[o].renamed.id = run[r].user_id)
    /\ \/ Raise(r, "StoreError")
       \/ /\ pc' = [pc EXCEPT ![r] = "save_user_message"]
          /\ UNCHANGED <<session, run>>
    /\ UNCHANGED <<deployment, users, chat_history, clock, body, response, task, relays>>

\* get_or_create_user, the name update: UPDATE, flush and refresh.  The row
\* is locked while another open transaction has updated it.
UpdateName(r) ==
    /\ pc[r] = "update_name"
    /\ \A o \in Requests \ {r} : ~(Active(o) /\ session[o].renamed.id = run[r].user_id)
    /\ \/ Raise(r, "StoreError")
       \/ /\ session' = [session EXCEPT ![r].renamed =
                            [id |-> run[r].user_id, name |-> task[r].name]]
          /\ pc' = [pc EXCEPT ![r] = "save_user_message"]
          /\ run' = run
    /\ UNCHANGED <<deployment, users, chat_history, clock, body, response, task, relays>>

\* get_or_create_user, the creation: INSERT, flush and refresh.  The insert
\* waits while another open transaction has inserted the same phone, and
\* fails on a committed row with the same phone.
InsertUser(r) ==
    /\ pc[r] = "insert_user"
    /\ PhoneUnique =>
          \A o \in Requests \ {r} :
             ~(Active(o) /\ session[o].new_user.id # 0
                         /\ session[o].new_user.phone_number = task[r].phone)
    /\ \/ Raise(r, "StoreError")
       \/ IF PhoneUnique /\ \E u \in users : u.phone_number = task[r].phone
          THEN Raise(r, "IntegrityError")
          ELSE /\ session' = [session EXCEPT ![r].new_user =
                                 [id |-> r, phone_number |-> task[r].phone,
                                  name |-> task[r].name]]
               /\ run' = [run EXCEPT ![r].user_id = r]
               /\ pc' = [pc EXCEPT ![r] = "save_user_message"]
    /\ UNCHANGED <<deployment, users, chat_history, clock, body, response, task, relays>>

\* The rows of users after the transaction of session s is committed.
CommitUsers(s) ==
    { IF u.id = s.renamed.id THEN [u EXCEPT !.name = s.renamed.name] ELSE u : u \in users }
    \cup (IF s.new_user.id # 0 THEN {s.new_user} ELSE {})

\* The row save_chat_message adds; its timestamp is the server default now().
ChatEntry(r, message, sender) ==
    [id |-> <<r, Len(session[r].messages) + 1>>, user_id |-> run[r].user_id,
     message |-> message, sender_type |-> sender, timestamp |-> session[r].ts]

\* Faulty variant of save_chat_message: commit() in place of flush().
save_chat_message_commits(r, message, sender) ==
    /\ session' = [session EXCEPT ![r].messages = Append(@, ChatEntry(r, message, sender))]
    /\ users' = CommitUsers(session[r])
    /\ chat_history' =
          chat_history \cup Range(session[r].messages) \cup {ChatEntry(r, message, sender)}

\* save_chat_message: the entry is added to the session and flushed.
save_chat_message(r, message, sender) ==
    /\ session' = [session EXCEPT ![r].messages = Append(@, ChatEntry(r, message, sender))]
    /\ UNCHANGED <<users, chat_history>>

\* Step 2: the inbound message is saved as a USER entry.
SaveUserMessage(r) ==
    /\ pc[r] = "save_user_message"
    /\ \/ Raise(r, "StoreError") /\ UNCHANGED <<users, chat_history>>
       \/ /\ save_chat_message(r, task[r].user_message, "user")
          /\ pc' = [pc EXCEPT ![r] = "get_history"]
          /\ run' = run
    /\ UNCHANGED <<deployment, clock, body, response, task, relays>>

\* Step 3: the recent history is read.
GetHistory(r) ==
    /\ pc[r] = "get_history"
    /\ \/ Raise(r, "StoreError")
       \/ /\ \E h \in get_chat_history(ViewMessages(r), run[r].user_id,
                                       context_message_count) :
                run' = [run EXCEPT ![r].history = h]
          /\ pc' = [pc EXCEPT ![r] = "call_ai"]
          /\ session' = session
    /\ UNCHANGED <<deployment, users, chat_history, clock, body, response, task, relays>>

\* history_for_ai: each entry with its role.
history_for_ai(history_db) ==
    [i \in DOMAIN history_db |->
        [role |-> IF history_db[i].sender_type = "ai" THEN "assistant" ELSE "user",
         content |-> history_db[i].message]]

\* Faulty variant of request_messages: the system instruction is put last.
request_messages_system_last(history) ==
    history \o <<[role |-> "system", content |-> SystemPrompt]>>

\* call_openrouter: the messages of the request.
request_messages(history) == <<[role |-> "system", content |-> SystemPrompt]>> \o history

\* Faulty variant of call_openrouter: a failed call gives its error text as the reply.
call_openrouter_error_text(outcome) ==
    IF outcome.kind = "choices" THEN SomeText(Strip(outcome.content))
    ELSE SomeText(<<"e", "r", "r", "o", "r">>)

\* Faulty variant of call_openrouter: the content is returned as it came.
call_openrouter_unstripped(outcome) ==
    IF outcome.kind = "choices" THEN SomeText(outcome.content) ELSE NoText

\* call_openrouter: the reply text for an outcome of the call, or none.
call_openrouter(outcome) ==
    IF outcome.kind = "choices" THEN SomeText(Strip(outcome.content)) ELSE NoText

\* Step 4: the completion API is called.
CallOpenRouter(r) ==
    /\ pc[r] = "call_ai"
    /\ \E outcome \in CompletionOutcomes :
          LET ai_response == call_openrouter(outcome)
          IN  /\ run' = [run EXCEPT ![r].completion = outcome.kind,
                                    ![r].ai_response = ai_response,
                                    ![r].sent_messages =
                                        request_messages(history_for_ai(run[r].history))]
              /\ pc' = [pc EXCEPT ![r] =
                           IF TextTruthy(ai_response) THEN "save_ai_message"
                           ELSE "relay_apology"]
    /\ UNCHANGED <<deployment, users, chat_history, clock, body, response, task, session,
                   relays>>

\* Step 5, first half: the reply is saved as an AI entry.
SaveAiMessage(r) ==
    /\ pc[r] = "save_ai_message"
    /\ \/ Raise(r, "StoreError") /\ UNCHANGED <<users, chat_history>>
       \/ /\ save_chat_message(r, run[r].ai_response.s, "ai")
          /\ pc' = [pc EXCEPT ![r] = "relay_reply"]
          /\ run' = run
    /\ UNCHANGED <<deployment, clock, body, response, task, relays>>

\* Faulty variant of clean_phone: the characters that are no digits are kept.
clean_phone_keeps_punctuation(phone) ==
    IF Len(phone) <= 11
       /\ ~(Len(phone) >= 2 /\ SubSeq(phone, 1, 2) = <<"5", "5">>)
    THEN <<"5", "5">> \o phone ELSE phone

\* send_zapi_message, the phone: digits only, "55" prepended to a short number.
clean_phone(phone) ==
    LET digits == SelectSeq(phone, LAMBDA c : c \in Digits)
    IN  IF Len(digits) <= 11
           /\ ~(Len(digits) >= 2 /\ SubSeq(digits, 1, 2) = <<"5", "5">>)
        THEN <<"5", "5">> \o digits ELSE digits

\* send_zapi_message: the calls made to the gateway (none for an empty
\* message); a failed call is logged and swallowed.
send_zapi_message(phone, message, delivered) ==
    IF message = <<>> THEN <<>>
    ELSE <<[phone |-> clean_phone(phone), message |-> message, delivered |-> delivered]>>

\* The try block of process_incoming_message ends.
Finish(r) ==
    /\ run' = [run EXCEPT ![r].finished = TRUE]
    /\ pc' = [pc EXCEPT ![r] = AfterTask]

\* Step 5, second half: the reply is relayed.
RelayReply(r) ==
    /\ pc[r] = "relay_reply"
    /\ \E delivered \in BOOLEAN :
          relays' = [relays EXCEPT ![r] =
                        @ \o send_zapi_message(task[r].phone, run[r].ai_response.s, delivered)]
    /\ Finish(r)
    /\ UNCHANGED <<deployment, users, chat_history, clock, body, response, task, session>>

\* Faulty variant of RelayApology: nothing is sent when no reply was produced.
RelayApology_silent(r) ==
    /\ pc[r] = "relay_apology"
    /\ Finish(r)
    /\ UNCHANGED <<deployment, users, chat_history, clock, body, response, task, session,
                   relays>>

\* Step 6: no reply was produced, the apology is relayed.
RelayApology(r) ==
    /\ pc[r] = "relay_apology"
    /\ \E delivered \in BOOLEAN :
          relays' = [relays EXCEPT ![r] =
                        @ \o send_zapi_message(task[r].phone, Apology, delivered)]
    /\ Finish(r)
    /\ UNCHANGED <<deployment, users, chat_history, clock, body, response, task, session>>

\* Faulty variant of CatchException: no except clause, the exception leaves the task.
CatchException_reraises(r) ==
    /\ pc[r] = "except"
    /\ run' = [run EXCEPT ![r].escaped = TRUE, ![r].finished = TRUE]
    /\ pc' = [pc EXCEPT ![r] = AfterTask]
    /\ UNCHANGED <<deployment, users, chat_history, clock, body, response, task, session,
                   relays>>

\* Step 7: the except clause relays the internal-error text and ends the run.
CatchException(r) ==
    /\ pc[r] = "except"
    /\ \E delivered \in BOOLEAN :
          relays' = [relays EXCEPT ![r] =
                        @ \o send_zapi_message(task[r].phone, InternalError, delivered)]
    /\ Finish(r)
    /\ UNCHANGED <<deployment, users, chat_history, clock, body, response, task, session>>

\* ------------------------------------------------------------ session exit

\* Faulty variant of DependencyExit: the commit replaces the entries of the
\* session's user by the entries of the session.
DependencyExit_replaces_history(r) ==
    /\ pc[r] = "exit"
    /\ LET s == session[r]
       IN  IF s.state = "active"
           THEN /\ users' = CommitUsers(s)
                /\ chat_history' =
                      {m \in chat_history : m.user_id # run[r].user_id} \cup Range(s.messages)
                /\ session' = [session EXCEPT ![r].state = "committed"]
           ELSE /\ UNCHANGED <<users, chat_history>>
                /\ session' = [session EXCEPT ![r].state =
                                  IF s.state = "failed" THEN "rolled_back" ELSE s.state]
    /\ pc' = [pc EXCEPT ![r] = IF deferredExit THEN "closed" ELSE "respond"]
    /\ UNCHANGED <<deployment, clock, body, response, task, run, relays>>

\* get_db after the yield: commit; a commit on an aborted transaction raises
\* (or is answered by a rollback) and the session is rolled back; close.
DependencyExit(r) ==
    /\ pc[r] = "exit"
    /\ LET s == session[r]
       IN  IF s.state = "active"
           THEN /\ users' = CommitUsers(s)
                /\ chat_history' = chat_history \cup Range(s.messages)
                /\ session' = [session EXCEPT ![r].state = "committed"]
           ELSE /\ UNCHANGED <<users, chat_history>>
                /\ session' = [session EXCEPT ![r].state =
                                  IF s.state = "failed" THEN "rolled_back" ELSE s.state]
    /\ pc' = [pc EXCEPT ![r] = IF deferredExit THEN "closed" ELSE "respond"]
    /\ UNCHANGED <<deployment, clock, body, response, task, run, relays>>

\* A session used after its dependency exited is committed by nobody: its
\* connection is reclaimed when the task drops it and the server rolls back.
SessionReclaimed(r) ==
    /\ pc[r] = "leaked"
    /\ session' = [session EXCEPT ![r].state = "rolled_back"]
    /\ pc' = [pc EXCEPT ![r] = "closed"]
    /\ UNCHANGED <<deployment, users, chat_history, clock, body, response, task, run,
                   relays>>

\* ---------------------------------------------------------- specification

Step(r) ==
    \/ HandleWebhook(r)
    \/ SendResponse(r)
    \/ SelectUser(r)
    \/ UpdateName(r)
    \/ InsertUser(r)
    \/ SaveUserMessage(r)
    \/ GetHistory(r)
    \/ CallOpenRouter(r)
    \/ SaveAiMessage(r)
    \/ RelayReply(r)
    \/ RelayApology(r)
    \/ CatchException(r)
    \/ DependencyExit(r)
    \/ SessionReclaimed(r)

Next == \E r \in Requests : Step(r)

Spec == Init /\ [][Next]_vars

\* The same system with the gateway posting text messages only.
LiveStep(r) ==
    \/ HandleTextWebhook(r)
    \/ SendResponse(r)
    \/ SelectUser(r)
    \/ UpdateName(r)
    \/ InsertUser(r)
    \/ SaveUserMessage(r)
    \/ GetHistory(r)
    \/ CallOpenRouter(r)
    \/ SaveAiMessage(r)
    \/ RelayReply(r)
    \/ RelayApology(r)
    \/ CatchException(r)
    \/ DependencyExit(r)
    \/ SessionReclaimed(r)

LiveNext == \E r \in Requests : LiveStep(r)

\* The event loop runs every task that can run (every await returns: the
\* HTTP calls have timeouts), and the framework runs every exit.
FairSpec == Init /\ [][LiveNext]_vars /\ \A r \in Requests : WF_vars(LiveStep(r))

\* A store that already holds a user and the two entries of an earlier run of
\* theirs (one transaction, one now()), all older than any new transaction.
ExistingUser == [id |-> NumRequests + 1, phone_number |-> PhoneA, name |-> "Ana"]

ExistingHistory ==
    { [id |-> <<0, 1>>, user_id |-> ExistingUser.id, message |-> <<"a">>,
       sender_type |-> "user", timestamp |-> 0],
      [id |-> <<0, 2>>, user_id |-> ExistingUser.id, message |-> <<"r">>,
       sender_type |-> "ai", timestamp |-> 0] }

\* Values CONTEXT_MESSAGE_COUNT is set to in the environment.
ConfiguredWindows == {1, 2}

\* The process starts on a populated store with a configured context window.
PopulatedInit ==
    /\ deferredExit \in BOOLEAN
    /\ context_message_count \in ConfiguredWindows
    /\ users = {ExistingUser}
    /\ chat_history = ExistingHistory
    /\ clock = 0
    /\ body = [r \in Requests |-> NoBody]
    /\ response = [r \in Requests |-> NoResponse]
    /\ task = [r \in Requests |-> NoTask]
    /\ pc = [r \in Requests |-> "idle"]
    /\ session = [r \in Requests |-> FreshSession]
    /\ run = [r \in Requests |-> NoRun]
    /\ relays = [r \in Requests |-> <<>>]

ConfiguredSpec == PopulatedInit /\ [][LiveNext]_vars

\* ------------------------------------------------------------------ claims

\* The rows a run wrote carry its number: the user it created has id r, its
\* chat entries have ids <<r, k>>.
RowsOf(r) == {m \in chat_history : m.id[1] = r}

CreatedBy(r) == {u \in users : u.id = r}

\* C1: a pipeline run in which an exception occurred leaves no write behind:
\* no committed chat entry or user is ever one of its rows, and no step a
\* failed run takes (its except clause, the end of its session) changes a
\* committed row.
C1_FailedRunLeavesNoWrite ==
    [][\A r \in Requests :
          /\ run'[r].exc # "" => (\A m \in chat_history' : m.id[1] # r)
                                 /\ (\A u \in users' : u.id # r)
          /\ (run[r].exc # "" /\ pc'[r] # pc[r]) =>
                (users' = users /\ chat_history' = chat_history)]_vars

\* C1 witness: under deferred exit, a run failed after it had saved its
\* inbound message, its session ended, and it was rolled back.
C1_Witness ==
    \E r \in Requests :
       /\ deferredExit
       /\ run[r].exc = "StoreError"
       /\ session[r].messages # <<>>
       /\ session[r].new_user.id = r
       /\ session[r].state = "rolled_back"
       /\ pc[r] = "closed"

\* C2: no two users share a phone number, neither among the committed rows
\* nor among the rows any session sees; the user get_or_create_user returned
\* is the one stored under the phone; a user is created only for a phone no
\* committed row has; and once a run's user is committed every later call
\* with the same phone returns that same id.
C2_OneUserPerPhone ==
    /\ \A r \in Requests : \A u1, u2 \in ViewUsers(r) :
          u1.phone_number = u2.phone_number => u1 = u2
    /\ \A u1, u2 \in users : u1.phone_number = u2.phone_number => u1 = u2
    /\ \A r \in Requests :
          (Active(r) /\ run[r].user_id # 0) =>
              \E u \in ViewUsers(r) :
                 u.id = run[r].user_id /\ u.phone_number = task[r].phone
    /\ \A r \in Requests :
          (Active(r) /\ session[r].new_user.id # 0) =>
              \A u \in users : u.phone_number # task[r].phone
    /\ \A r1, r2 \in Requests :
          ( /\ task[r1].scheduled /\ task[r2].scheduled
            /\ task[r1].phone = task[r2].phone
            /\ session[r1].state = "committed"
            /\ session[r2].state \in {"active", "committed"}
            /\ run[r1].user_id # 0 /\ run[r2].user_id # 0 )
          => run[r1].user_id = run[r2].user_id

\* C2 witness: a run created the user of a phone and committed; a later run
\* for the same phone resolved to that user.
C2_Witness ==
    \E r1, r2 \in Requests :
       /\ r1 # r2
       /\ session[r1].state = "committed"
       /\ session[r1].new_user.id = r1
       /\ task[r2].phone = task[r1].phone
       /\ run[r2].user_id = r1
       /\ session[r2].state = "committed"

\* C3: of two runs for the same phone, both persist their inbound message
\* and one user exists, whenever no statement of theirs failed for another
\* reason than the uniqueness of the phone (the sessions are committed at
\* their exit, after the tasks).
C3_BothRunsPersist ==
    \A r1, r2 \in Requests :
       ( /\ deferredExit
         /\ r1 # r2
         /\ task[r1].scheduled /\ task[r2].scheduled
         /\ task[r1].phone = task[r2].phone
         /\ pc[r1] = "closed" /\ pc[r2] = "closed"
         /\ run[r1].exc # "StoreError" /\ run[r2].exc # "StoreError" )
       => /\ Cardinality({u \in users : u.phone_number = task[r1].phone}) = 1
          /\ \E m \in RowsOf(r1) : m.sender_type = "user"
          /\ \E m \in RowsOf(r2) : m.sender_type = "user"

\* The ids users can have (a created user takes the number of its run).
UserIds == Requests

\* History h is a result of reading at most n entries of user u from rows:
\* as many as asked for or as there are, each one a distinct row of u, no
\* row left out is newer than one returned, and timestamps ascend (strictly
\* or not).
HistoryOk(h, rows, u, n, strict) ==
    LET mine == {m \in rows : m.user_id = u}
    IN  /\ Len(h) <= n
        /\ Len(h) = Min(n, Cardinality(mine))
        /\ \A i \in DOMAIN h : h[i] \in mine
        /\ \A i, j \in DOMAIN h : i # j => h[i] # h[j]
        /\ \A m \in mine \ Range(h) : \A i \in DOMAIN h : m.timestamp <= h[i].timestamp
        /\ \A i, j \in DOMAIN h :
              i < j => IF strict THEN h[i].timestamp < h[j].timestamp
                       ELSE h[i].timestamp <= h[j].timestamp

AllHistoriesOk(strict) ==
    /\ \A r \in Requests : \A u \in UserIds : \A n \in 0..MaxLimit :
          \A h \in get_chat_history(ViewMessages(r), u, n) :
             HistoryOk(h, ViewMessages(r), u, n, strict)
    /\ \A r \in Requests :
          pc[r] = "call_ai" =>
             /\ Len(run[r].history) <= CONTEXT_MESSAGE_COUNT
             /\ \A i \in DOMAIN run[r].history : run[r].history[i].user_id = run[r].user_id
             /\ \A i, j \in DOMAIN run[r].history :
                   i < j => IF strict
                            THEN run[r].history[i].timestamp < run[r].history[j].timestamp
                            ELSE run[r].history[i].timestamp <= run[r].history[j].timestamp

C5_RoundTrip ==
    \A r \in Requests :
       (Active(r) /\ pc[r] \in {"get_history", "relay_reply"}) =>
          LET saved == session[r].messages[Len(session[r].messages)]
          IN  \A h \in get_chat_history(ViewMessages(r), run[r].user_id, 1) :
                 /\ Len(h) = 1
                 /\ h[1].message = saved.message
                 /\ h[1].sender_type = saved.sender_type

\* The completion call of run r returned no choices or failed.
NoCompletion(r) == run[r].completion \in {"no_choices", "http_error", "error"}

\* C6: when the completion call returned no choices or failed, the run
\* relays the apology once, to the sender, and nothing else; the one entry
\* it adds to the history is the inbound USER message, and no entry holds
\* the apology.
C6_ApologyWithoutAiEntry ==
    \A r \in Requests :
       NoCompletion(r) =>
          /\ \A i \in DOMAIN session[r].messages :
                /\ session[r].messages[i].sender_type = "user"
                /\ session[r].messages[i].message = task[r].user_message
          /\ Len(session[r].messages) = 1
          /\ \A m \in RowsOf(r) : m.sender_type = "user" /\ m.message # Apology
          /\ run[r].exc = ""
          /\ pc[r] # "relay_apology" =>
                /\ Len(relays[r]) = 1
                /\ relays[r][1].message = Apology
                /\ relays[r][1].phone = clean_phone(task[r].phone)
          /\ pc[r] = "relay_apology" => relays[r] = <<>>

\* C6 witness: a run whose completion call failed has relayed the apology
\* and its session was committed with the inbound message alone.
C6_Witness ==
    \E r \in Requests :
       /\ run[r].completion = "http_error"
       /\ relays[r] # <<>>
       /\ session[r].state = "committed"
       /\ Cardinality(RowsOf(r)) = 1

\* Body b is JSON of the expected shape, is no group message and carries a
\* text with a character that is not whitespace.
Accepted(b) ==
    /\ b.json
    /\ model_validate(b).valid
    /\ b.isGroupMessage # "true"
    /\ b.message.k = "obj"
    /\ b.message.mensagem.k = "str"
    /\ \E i \in DOMAIN b.message.mensagem.v : b.message.mensagem.v[i] \notin Whitespace

\* C7: a pipeline run is scheduled exactly for an accepted body, with the
\* body's phone and trimmed text; a request with no run scheduled has no
\* session use, no pipeline state, no relay and no row in the store.
C7_OnlyAcceptedEventsRun ==
    \A r \in Requests :
       /\ pc[r] # "idle" => (task[r].scheduled <=> Accepted(body[r]))
       /\ task[r].scheduled =>
             /\ task[r].phone = body[r].phone.v
             /\ task[r].user_message # <<>>
             /\ task[r].user_message = Strip(body[r].message.mensagem.v)
       /\ ~task[r].scheduled =>
             /\ session[r] = FreshSession
             /\ run[r] = NoRun
             /\ relays[r] = <<>>
             /\ RowsOf(r) = {}
             /\ CreatedBy(r) = {}

\* C7 witness: a group message was answered and closed with nothing
\* scheduled, and a text message of another request ran to its commit.
C7_Witness ==
    \E r1, r2 \in Requests :
       /\ body[r1].isGroupMessage = "true"
       /\ body[r1].message.k = "obj"
       /\ response[r1].sent
       /\ pc[r1] = "closed"
       /\ task[r2].scheduled
       /\ session[r2].state = "committed"

\* The status the endpoint is to give a JSON body: the first case that
\* matches.  emptyIsNoText: whether an empty string counts as no text.
ExpectedStatus(b, emptyIsNoText) ==
    LET text == b.message.mensagem.v
    IN  IF ~model_validate(b).valid THEN "processing_error"
        ELSE IF b.isGroupMessage = "true" THEN "ignored_group_message"
        ELSE IF b.message.k # "obj" \/ b.message.mensagem.k # "str"
                \/ (emptyIsNoText /\ text = <<>>)
             THEN "ignored_no_text"
        ELSE IF \A i \in DOMAIN text : text[i] \in Whitespace THEN "ignored_empty_text"
        ELSE "received"

AnswersAsExpected(emptyIsNoText) ==
    \A r \in Requests :
       pc[r] # "idle" =>
          /\ response[r].http = 400 <=> ~body[r].json
          /\ body[r].json =>
                /\ response[r].http = 200
                /\ response[r].status = ExpectedStatus(body[r], emptyIsNoText)

\* C8 as stated: 400 exactly for a body that is not JSON; a JSON body gets
\* 200 and the status of the first matching case, an empty text being
\* answered ignored_empty_text.
C8_StatusEmptyTextIsEmpty == AnswersAsExpected(FALSE)

\* C8 amended: 400 exactly for a body that is not JSON; a JSON body gets 200
\* and the status of the first matching case, where a text that is the empty
\* string is answered ignored_no_text like an absent one, and
\* ignored_empty_text is the answer to a non-empty text of whitespace only.
C8_StatusByFirstMatch == AnswersAsExpected(TRUE)

\* C8 witness: a valid body whose text is the empty string was answered
\* ignored_no_text, and a body that is not JSON was answered 400.
C8_Witness ==
    \E r1, r2 \in Requests :
       /\ body[r1].message.mensagem = JStr(<<>>)
       /\ response[r1].sent
       /\ response[r1].status = "ignored_no_text"
       /\ ~body[r2].json
       /\ response[r2].http = 400
       /\ pc[r2] = "closed"

\* C9: no exception leaves a pipeline run; a run in which a statement failed
\* takes no further pipeline step, relays the internal-error text exactly
\* once and nothing else, and ends whether or not that relay was delivered.
C9_FailureCaughtAtBoundary ==
    \A r \in Requests :
       /\ ~run[r].escaped
       /\ run[r].exc # "" =>
             /\ pc[r] \in {"except", "exit", "leaked", "closed"}
             /\ pc[r] = "except" => relays[r] = <<>> /\ ~run[r].finished
             /\ pc[r] # "except" =>
                   /\ run[r].finished
                   /\ Len(relays[r]) = 1
                   /\ relays[r][1].message = InternalError
                   /\ relays[r][1].phone = clean_phone(task[r].phone)

\* C9 witness: a run failed after it had written, its relay of the
\* internal-error text failed too, and the run ended.
C9_Witness ==
    \E r \in Requests :
       /\ run[r].exc = "StoreError"
       /\ session[r].messages # <<>>
       /\ run[r].finished
       /\ Len(relays[r]) = 1
       /\ ~relays[r][1].delivered
       /\ pc[r] = "closed"

\* Run r made a relay call to the sender of its event with the reply, the
\* apology or the internal-error text.
Relayed(r) ==
    \E i \in DOMAIN relays[r] :
       /\ relays[r][i].phone = clean_phone(task[r].phone)
       /\ relays[r][i].message \in {run[r].ai_response.s, Apology, InternalError}

\* C10: every event answered "received" leads to a relay call to its sender
\* carrying the reply, the apology or the internal-error text, whatever
\* fails in the store or at the completion API.
C10_ReceivedLeadsToRelay ==
    \A r \in Requests : (response[r].status = "received") ~> Relayed(r)

\* C10 witness: an event answered "received" whose run failed in the store
\* was relayed the internal-error text, and another whose completion call
\* failed was relayed the apology.
C10_Witness ==
    \E r1, r2 \in Requests :
       /\ response[r1].status = "received" /\ response[r2].status = "received"
       /\ run[r1].exc = "IntegrityError"
       /\ Relayed(r1)
       /\ run[r2].completion = "error"
       /\ Relayed(r2)

\* Some step of the pipeline run of request r has executed: its session was
\* used, a local was set or a relay call was made.
PipelineStarted(r) == session[r] # FreshSession \/ run[r] # NoRun \/ relays[r] # <<>>

\* C11: every step after which the pipeline run of a request has started is
\* taken with the request's response already sent, and that response is 200
\* "received"; a response once sent never changes; and the response is the one
\* the handler computed from the body alone.
C11_ReceivedBeforeRun ==
    [][\A r \in Requests :
          /\ PipelineStarted(r)' =>
                /\ response[r].sent
                /\ response[r].http = 200
                /\ response[r].status = "received"
          /\ response[r].sent => response'[r] = response[r]
          /\ pc'[r] # "idle" =>
                /\ response'[r].http = handle_zapi_webhook(body'[r]).http
                /\ response'[r].status = handle_zapi_webhook(body'[r]).status]_vars

\* C11 witness: two events were acknowledged alike; the run of one failed in
\* the store, the run of the other relayed a reply and was committed.
C11_Witness ==
    \E r1, r2 \in Requests :
       /\ response[r1].sent /\ response[r2].sent
       /\ response[r1] = response[r2]
       /\ response[r1].status = "received"
       /\ run[r1].exc # "" /\ run[r1].finished
       /\ run[r2].exc = "" /\ run[r2].finished
       /\ Len(session[r2].messages) = 2
       /\ session[r2].state = "committed"

\* C12: a run that appended the AI reply and whose relay of it then failed
\* ends without an exception, and its USER and AI entries are persisted when
\* the request is over.
C12_FailedRelayKeepsWrites ==
    \A r \in Requests :
       ( /\ pc[r] = "closed"
         /\ Len(session[r].messages) = 2
         /\ relays[r] # <<>>
         /\ ~relays[r][1].delivered )
       => /\ run[r].exc = ""
          /\ ~run[r].escaped
          /\ Range(session[r].messages) \subseteq chat_history

\* The digits of a string, in their order.
RECURSIVE DigitsOf(_)
DigitsOf(s) ==
    IF s = <<>> THEN <<>>
    ELSE IF Head(s) \in Digits THEN <<Head(s)>> \o DigitsOf(Tail(s))
    ELSE DigitsOf(Tail(s))

StartsWith55(d) == Len(d) >= 2 /\ d[1] = "5" /\ d[2] = "5"

\* The normal form of a phone: its digits, "55" put in front exactly when
\* there are 11 or fewer of them and they do not start with "55".
Normalized(p) ==
    LET d == DigitsOf(p)
    IN  IF Len(d) <= 11 /\ ~StartsWith55(d) THEN <<"5", "5">> \o d ELSE d

\* Phones of every kind: short and long, with and without the prefix, with
\* punctuation, and the empty string.
PhoneSamples ==
    { PhoneA, PhoneAPunct, PhoneA55, PhoneB,
      <<>>,
      <<"5", "5", "1", "2", "3">>,
      <<"5", "5", "1", "1", "9", "8", "7", "6", "5", "4", "3">>,
      <<"5", "1", "1", "9", "8", "7", "6", "5", "4", "3", "2">>,
      <<"4", "4", "1", "2", "3", "4", "5", "6", "7", "8", "9", "0">>,
      <<"+", "5", "5", " ", "(", "1", "1", ")", " ", "9", "8", "7", "6", "5", "-", "4",
        "3", "2", "1">>,
      <<"+", "1", " ", "4", "1", "5", "-", "5", "5", "5", "-", "0", "1", "0", "0">>,
      <<"a", "-", "b">> }

\* C13: the phone of every relay call is the normal form of the phone the
\* run was given; clean_phone gives the normal form of phones of every kind;
\* "11987654321" and "(11) 98765-4321" give "5511987654321", which is left
\* as it is.
C13_PhoneNormalization ==
    /\ \A r \in Requests : \A i \in DOMAIN relays[r] :
          relays[r][i].phone = Normalized(task[r].phone)
    /\ \A p \in PhoneSamples : clean_phone(p) = Normalized(p)
    /\ clean_phone(PhoneA) = PhoneA55
    /\ clean_phone(PhoneAPunct) = PhoneA55
    /\ clean_phone(PhoneA55) = PhoneA55

\* C13 witness: a relay call was made for an event with the phone
\* "(11) 98765-4321" and another for an event with "5511987654321", both to
\* "5511987654321".
C13_Witness ==
    \E r1, r2 \in Requests :
       /\ task[r1].phone = PhoneAPunct
       /\ task[r2].phone = PhoneA55
       /\ relays[r1] # <<>> /\ relays[r1][1].phone = PhoneA55
       /\ relays[r2] # <<>> /\ relays[r2][1].phone = PhoneA55

\* C14: the phone number of every stored user is in normal form, and two
\* committed runs whose phones have the same normal form resolved to the
\* same user.
C14_StoredPhonesNormalized ==
    /\ \A u \in users : u.phone_number = Normalized(u.phone_number)
    /\ \A r1, r2 \in Requests :
          ( /\ session[r1].state = "committed" /\ session[r2].state = "committed"
            /\ run[r1].user_id # 0 /\ run[r2].user_id # 0
            /\ Normalized(task[r1].phone) = Normalized(task[r2].phone) )
          => run[r1].user_id = run[r2].user_id

\* C15: when get_or_create_user finds the user of the phone, it goes on to
\* update the name exactly when the name it was given is neither absent nor
\* empty and differs from the stored one, and otherwise returns with the rows
\* as they were; the update leaves the user's row with the given name and
\* the same id and phone, and no other row changed; and a committed row
\* keeps its id and phone, and changes its name only to the name such an
\* update wrote.
C15_NameUpdatedWhenDifferent ==
    [][\A r \in Requests :
          /\ (pc[r] = "get_user" /\ run'[r].user_id # 0) =>
                \E u \in users :
                   /\ u.id = run'[r].user_id
                   /\ u.phone_number = task[r].phone
                   /\ pc'[r] = "update_name" <=>
                         (task[r].name \notin {None, ""} /\ task[r].name # u.name)
                   /\ pc'[r] # "update_name" =>
                         (pc'[r] = "save_user_message" /\ ViewUsers(r)' = users)
          /\ (pc[r] = "update_name" /\ pc'[r] = "save_user_message") =>
                \E u \in ViewUsers(r) :
                   /\ u.id = run[r].user_id
                   /\ task[r].name \notin {None, ""}
                   /\ ViewUsers(r)' =
                         (ViewUsers(r) \ {u}) \cup
                            {[id |-> u.id, phone_number |-> u.phone_number,
                              name |-> task[r].name]}
          /\ \A u \in users :
                \E v \in users' :
                   /\ v.id = u.id
                   /\ v.phone_number = u.phone_number
                   /\ v.name # u.name =>
                         \E q \in Requests :
                            /\ pc[q] = "exit"
                            /\ run[q].user_id = u.id
                            /\ task[q].name = v.name
                            /\ v.name \notin {None, ""}]_vars

\* C15 witness: a run created the user of a phone under one name and was
\* committed; a later run for the phone with another name updated the name
\* and was committed: the row has the new name and the id and phone it had.
C15_Witness ==
    \E r1, r2 \in Requests :
       /\ session[r1].state = "committed"
       /\ session[r1].new_user.id = r1
       /\ session[r2].state = "committed"
       /\ session[r2].renamed.id = r1
       /\ task[r2].name # task[r1].name
       /\ [id |-> r1, phone_number |-> task[r1].phone, name |-> task[r2].name] \in users

\* C16: no step removes or rewrites a committed chat entry, and no two
\* entries share an id; the entries a step adds are the entries of one run
\* that ended without an exception: its inbound text as a USER entry and at
\* most one AI entry; and the entries a session holds are only added to.
C16_AppendOnlyLog ==
    [][/\ chat_history \subseteq chat_history'
       /\ \A m1, m2 \in chat_history' : m1.id = m2.id => m1 = m2
       /\ chat_history' # chat_history =>
             \E r \in Requests :
                LET added == session[r].messages
                IN  /\ run[r].exc = "" /\ run[r].finished
                    /\ chat_history' \ chat_history = Range(added)
                    /\ Len(added) \in {1, 2}
                    /\ added[1].sender_type = "user"
                    /\ added[1].message = task[r].user_message
                    /\ Len(added) = 2 => added[2].sender_type = "ai"
                    /\ \A i \in DOMAIN added : added[i].user_id = run[r].user_id
       /\ \A r \in Requests :
             /\ Len(session[r].messages) <= Len(session'[r].messages)
             /\ \A i \in DOMAIN session[r].messages :
                   session'[r].messages[i] = session[r].messages[i]]_vars

\* C16 witness: the log holds the USER and AI entries of one committed run
\* and, added after them, the entries of a second committed run of the same
\* user.
C16_Witness ==
    \E r1, r2 \in Requests :
       /\ r1 # r2
       /\ Cardinality(RowsOf(r1)) = 2
       /\ Cardinality(RowsOf(r2)) = 2
       /\ run[r2].user_id = run[r1].user_id
       /\ session[r1].ts < session[r2].ts
       /\ \E m \in RowsOf(r1) : m.sender_type = "ai"

\* C17: when the request of a run that finished without an exception is
\* over, the session that carried the run's writes is committed: the user it
\* resolved or created and every entry it saved are among the committed rows.
C17_FinishedRunIsCommitted ==
    \A r \in Requests :
       ( /\ pc[r] = "closed"
         /\ task[r].scheduled
         /\ run[r].finished
         /\ run[r].exc = "" )
       => /\ session[r].state = "committed"
          /\ Range(session[r].messages) \subseteq chat_history
          /\ \E u \in users : u.id = run[r].user_id /\ u.phone_number = task[r].phone

\* C18: the history a run fetched in step 3 holds the inbound message the
\* run saved in step 2 (stated for the runs whose transaction shares its
\* now() with no other transaction, so that no entry of another run has the
\* timestamp of the inbound message).
C18_HistoryHasInboundMessage ==
    \A r \in Requests :
       ( /\ pc[r] = "call_ai"
         /\ \A o \in Requests \ {r} : session[o].ts # session[r].ts )
       => \E i \in DOMAIN run[r].history : run[r].history[i].id = <<r, 1>>

\* C19: the request sent to the completion API has the system instruction
\* as its first turn and no other system turn; the turns after it are the
\* fetched history in its order, an AI entry as "assistant" and a USER entry
\* as "user", each with the entry's text; there are at most 1 + the
\* configured context window of them.
C19_RequestTurns ==
    \A r \in Requests :
       run[r].sent_messages # <<>> =>
          LET sent == run[r].sent_messages
              history == run[r].history
          IN  /\ sent[1].role = "system"
              /\ sent[1].content = SystemPrompt
              /\ Len(sent) = 1 + Len(history)
              /\ Len(sent) <= 1 + context_message_count
              /\ \A i \in 2..Len(sent) :
                    /\ sent[i].role # "system"
                    /\ history[i - 1].sender_type = "ai" => sent[i].role = "assistant"
                    /\ history[i - 1].sender_type = "user" => sent[i].role = "user"
                    /\ sent[i].content = history[i - 1].message
                    /\ history[i - 1].user_id = run[r].user_id

\* C19 witness: with a context window of 2 and a user who has more entries
\* than that, a request of three turns was sent: the system instruction, an
\* earlier AI entry as "assistant" and the inbound message as "user".
C19_Witness ==
    \E r \in Requests :
       /\ context_message_count = 2
       /\ Cardinality({m \in chat_history : m.user_id = run[r].user_id}) >= 2
       /\ Len(run[r].sent_messages) = 3
       /\ run[r].sent_messages[2].role = "assistant"
       /\ run[r].sent_messages[3] = [role |-> "user", content |-> task[r].user_message]

\* C20: a run whose completion call returned a first choice and in which
\* no store statement failed after it: when the stripped content is empty,
\* the run holds its USER entry alone and relays the apology and nothing
\* else; when it is not empty, the run saves it as the AI entry after the
\* USER entry and relays that text and nothing else.
C20_BlankReplyIsNoReply ==
    \A r \in Requests :
       (run[r].completion = "choices" /\ run[r].exc = "") =>
          LET reply == run[r].ai_response.s
              saved == session[r].messages
              sent == relays[r]
          IN  IF reply = <<>>
              THEN /\ pc[r] # "save_ai_message" /\ pc[r] # "relay_reply"
                   /\ Len(saved) = 1
                   /\ saved[1].sender_type = "user"
                   /\ \A m \in RowsOf(r) : m.sender_type = "user"
                   /\ IF pc[r] = "relay_apology" THEN sent = <<>>
                      ELSE Len(sent) = 1 /\ sent[1].message = Apology
              ELSE /\ pc[r] # "relay_apology"
                   /\ \E i \in DOMAIN reply : reply[i] \notin Whitespace
                   /\ IF pc[r] = "save_ai_message" THEN Len(saved) = 1 /\ sent = <<>>
                      ELSE /\ Len(saved) = 2
                           /\ saved[2].sender_type = "ai"
                           /\ saved[2].message = reply
                           /\ IF pc[r] = "relay_reply" THEN sent = <<>>
                              ELSE Len(sent) = 1 /\ sent[1].message = reply

\* C20 witness: the completion call of one run returned a blank content, the
\* run relayed the apology and was committed with its USER entry alone; the
\* call of another returned a text, which was saved, relayed and committed.
C20_Witness ==
    \E r1, r2 \in Requests :
       /\ run[r1].completion = "choices"
       /\ run[r1].ai_response.s = <<>>
       /\ relays[r1] # <<>> /\ relays[r1][1].message = Apology
       /\ Cardinality(RowsOf(r1)) = 1
       /\ run[r2].completion = "choices"
       /\ run[r2].ai_response.s # <<>>
       /\ relays[r2] # <<>> /\ relays[r2][1].message = run[r2].ai_response.s
       /\ Cardinality(RowsOf(r2)) = 2

====
